---- MODULE Spec2Model ----
(***************************************************************************)
(* A model of wardstone's NIST SP 800-57 validation functions              *)
(* (src/src/standards/nist.rs), of their C entry points, and of the x509   *)
(* assessor of the command line tool (src/crates/cmd/src/assess.rs).       *)
(*                                                                         *)
(* A behaviour is one invocation of one entry point: Init draws the        *)
(* arguments of the call, the actions are the steps of the called code.    *)
(***************************************************************************)
EXTENDS Integers, Naturals, Sequences, FiniteSets, TLC

VARIABLES
  op,        \* the entry point that is invoked
  pc,        \* the position of the invocation
  hashA,     \* validate_hash: the hash under test
  hashB,     \* validate_hash: a second hash, validated under the same context
  keyA,      \* validate_symmetric: the key under test
  keyB,      \* validate_symmetric: a second key, validated with the same expiry
  expiry,    \* validate_symmetric / ws_nist_validate_symmetric: the year
  resA,      \* the Result of validating the first primitive
  resB,      \* the Result of validating the second primitive
  reval,     \* the Result of validating the recommendation of resA again
  ptrIn,     \* C API: the required input pointer (hash / key)
  ptrOut,    \* C API: the optional output pointer (alt / alternative)
  mem,       \* C API: the caller's memory, address -> primitive
  mem0,      \* C API: the caller's memory as it was when the call was made
  deref,     \* C API: the pointers the call read through
  writes,    \* C API: the pointers the call wrote through
  ret,       \* C API: the c_int returned
  path,      \* x509: the path argument
  guide,     \* x509: the guide argument
  verbose,   \* x509: the verbose argument
  cert,      \* x509: what Certificate::from_pem_file and the extractors give
  engine,    \* x509: what the guide's standard answers for the certificate
  pass,      \* x509: the local `pass`
  status,    \* x509: the Status returned
  out,       \* x509: the lines printed, in the order they are printed
  calls      \* x509: the validations invoked, in the order they are invoked

nistVars == <<hashA, hashB, keyA, keyB, expiry, resA, resB, reval>>
ffiVars  == <<ptrIn, ptrOut, mem, mem0, deref, writes, ret>>
x509Args == <<path, guide, verbose, cert, engine>>
x509Vars == <<pass, status, out, calls>>
vars == <<op, pc, nistVars, ffiVars, x509Args, x509Vars>>

----------------------------------------------------------------------------
(* Bounds of the model.                                                    *)

\* Hash output sizes 0..MaxBits are drawn (the threshold is at 224 bits).
MaxBits == 232
\* Symmetric security strengths 0..MaxSecurity are drawn (thresholds 112, 128).
MaxSecurity == 132
\* Years CUTOFF_YEAR - YearSpan .. CUTOFF_YEAR + YearSpan are drawn.
YearSpan == 2

\* The largest u16: Hash.n, Symmetric.security and expiry are u16.
U16Max == 65535

----------------------------------------------------------------------------
(* Primitives and Results.                                                 *)

\* struct Hash { n: u16 }
Hash(n) == [n |-> n]
\* struct Symmetric { security: u16 }
Symmetric(security) == [security |-> security]

\* primitives::hash::SHA256: a 256 bit digest.
SHA256 == Hash(256)
\* primitives::symmetric::AES128: 128 bits of security.
AES128 == Symmetric(128)

\* Result::Ok(v) and Result::Err(v); Unit is ().
Ok(v) == [tag |-> "Ok", val |-> v]
Err(v) == [tag |-> "Err", val |-> v]
Unit == "()"
\* Option::Some(v) and Option::None.
Some(v) == [some |-> TRUE, val |-> v]
None == [some |-> FALSE]
\* A variable the invoked entry point does not have, or has not set yet.
Unset == "-"
NoResult == [tag |-> "-", val |-> Unset]

CUTOFF_YEAR == 2023

----------------------------------------------------------------------------
(* src/src/standards/nist.rs: the validation functions.                    *)

\* A plausible slip: the collision resistance taken as the whole digest size.
validate_hash_NoHalving(hash) ==
  LET security == hash.n
  IN  IF security <= 111 THEN Err(SHA256) ELSE Ok(TRUE)

\* A plausible slip: 128 bits of collision resistance are still rejected.
validate_hash_OffByArm(hash) ==
  LET security == hash.n \div 2
  IN  IF security <= 128 THEN Err(SHA256) ELSE Ok(TRUE)

\* validate_hash: security = n >> 1; ..=111 => Err(SHA256), 112.. => Ok(true).
validate_hash(hash) ==
  LET security == hash.n \div 2
  IN  CASE security <= 111 -> Err(SHA256)
        [] security >= 112 -> Ok(TRUE)

\* A plausible slip: the guard of the 112 arm written < instead of <=.
validate_symmetric_StrictCutoff(key, exp) ==
  IF key.security = 112 /\ exp < CUTOFF_YEAR THEN Ok(Unit)
  ELSE IF key.security <= 127 THEN Err(AES128)
  ELSE Ok(Unit)

\* validate_symmetric: the arms of the match, tried in order.
validate_symmetric(key, exp) ==
  IF key.security = 112 /\ exp <= CUTOFF_YEAR THEN Ok(Unit)
  ELSE IF key.security <= 127 THEN Err(AES128)
  ELSE Ok(Unit)

----------------------------------------------------------------------------
(* src/src/standards/nist.rs: the C entry points.  A pointer is NULL or    *)
(* the address of an object of the caller; the input and the output are    *)
(* distinct objects.  Each entry point is given as its effect: the c_int   *)
(* returned, the memory after the call, and the pointers read and written  *)
(* through.                                                                *)

NULL == "null"
InAddr == "in"
OutAddr == "out"
Addrs == {InAddr, OutAddr}

\* `is_compliant as c_int`
c_int(b) == IF b THEN 1 ELSE 0

\* A plausible slip: the recommendation stored without the is_null test.
ws_nist_validate_hash_Unguarded(hash, alt, m) ==
  IF hash = NULL
  THEN [ret |-> -1, mem |-> m, deref |-> {}, writes |-> {}]
  ELSE LET r == validate_hash(m[hash])
       IN  IF r.tag = "Ok"
           THEN [ret |-> c_int(r.val), mem |-> m, deref |-> {hash}, writes |-> {}]
           ELSE [ret |-> 0,
                 mem |-> [a \in Addrs |-> IF a = alt THEN r.val ELSE m[a]],
                 deref |-> {hash}, writes |-> {alt}]

\* A plausible slip: a missing input reported as noncompliant.
ws_nist_validate_hash_NullIsZero(hash, alt, m) ==
  IF hash = NULL
  THEN [ret |-> 0, mem |-> m, deref |-> {}, writes |-> {}]
  ELSE LET r == validate_hash(m[hash])
       IN  IF r.tag = "Ok"
           THEN [ret |-> c_int(r.val), mem |-> m, deref |-> {hash}, writes |-> {}]
           ELSE IF alt # NULL
                THEN [ret |-> 0, mem |-> [m EXCEPT ![alt] = r.val],
                      deref |-> {hash}, writes |-> {alt}]
                ELSE [ret |-> 0, mem |-> m, deref |-> {hash}, writes |-> {}]

\* ws_nist_validate_hash: hash.as_ref() is None for a null pointer, and then
\* unwrap_or(-1); otherwise validate_hash, Ok(is_compliant) mapped to
\* is_compliant as c_int, Err(rec) stored through alt unless alt is null, 0.
ws_nist_validate_hash(hash, alt, m) ==
  IF hash = NULL
  THEN [ret |-> -1, mem |-> m, deref |-> {}, writes |-> {}]
  ELSE LET r == validate_hash(m[hash])
       IN  IF r.tag = "Ok"
           THEN [ret |-> c_int(r.val), mem |-> m, deref |-> {hash}, writes |-> {}]
           ELSE IF alt # NULL
                THEN [ret |-> 0, mem |-> [m EXCEPT ![alt] = r.val],
                      deref |-> {hash}, writes |-> {alt}]
                ELSE [ret |-> 0, mem |-> m, deref |-> {hash}, writes |-> {}]

\* ws_nist_validate_symmetric: key.as_ref().map_or(-1, ...); Ok(_) => 1,
\* Err(recommendation) stored through alternative unless it is null, 0.
ws_nist_validate_symmetric(key, exp, alternative, m) ==
  IF key = NULL
  THEN [ret |-> -1, mem |-> m, deref |-> {}, writes |-> {}]
  ELSE LET r == validate_symmetric(m[key], exp)
       IN  IF r.tag = "Ok"
           THEN [ret |-> 1, mem |-> m, deref |-> {key}, writes |-> {}]
           ELSE IF alternative # NULL
                THEN [ret |-> 0, mem |-> [m EXCEPT ![alternative] = r.val],
                      deref |-> {key}, writes |-> {alternative}]
                ELSE [ret |-> 0, mem |-> m, deref |-> {key}, writes |-> {}]

----------------------------------------------------------------------------
(* The arguments the model draws.                                          *)

HashBits == (0..MaxBits) \cup {256, 384, 512, U16Max}
Securities == (0..MaxSecurity) \cup {192, 256, U16Max}
Years == ((CUTOFF_YEAR - YearSpan)..(CUTOFF_YEAR + YearSpan)) \cup {0, U16Max}
Hashes == {Hash(n) : n \in HashBits}
Keys == {Symmetric(s) : s \in Securities}
\* What the caller's output object holds before the call.
PriorHashes == {Hash(0), SHA256}
PriorKeys == {Symmetric(0), AES128}
Pointers(a) == {NULL, a}

NoNist ==
  /\ hashA = Unset /\ hashB = Unset /\ keyA = Unset /\ keyB = Unset
  /\ expiry = Unset /\ resA = NoResult /\ resB = NoResult /\ reval = NoResult

NoFfi ==
  /\ ptrIn = Unset /\ ptrOut = Unset /\ mem = Unset /\ mem0 = Unset
  /\ deref = {} /\ writes = {} /\ ret = Unset

\* enum Status { Ok(PathBuf), Fail(PathBuf) }
StatusOk(p) == [tag |-> "Ok", path |-> p]
StatusFail(p) == [tag |-> "Fail", path |-> p]
NoStatus == [tag |-> "-", path |-> Unset]

NoX509 ==
  /\ path = Unset /\ guide = Unset /\ verbose = Unset /\ cert = Unset
  /\ engine = Unset /\ pass = NoStatus /\ status = NoStatus
  /\ out = <<>> /\ calls = <<>>

InitValidateHash ==
  /\ op = "validate_hash" /\ pc = "call"
  /\ hashA \in Hashes /\ hashB \in Hashes
  /\ keyA = Unset /\ keyB = Unset /\ expiry = Unset
  /\ resA = NoResult /\ resB = NoResult /\ reval = NoResult
  /\ NoFfi /\ NoX509

InitValidateSymmetric ==
  /\ op = "validate_symmetric" /\ pc = "call"
  /\ keyA \in Keys /\ keyB \in Keys /\ expiry \in Years
  /\ hashA = Unset /\ hashB = Unset
  /\ resA = NoResult /\ resB = NoResult /\ reval = NoResult
  /\ NoFfi /\ NoX509

\* The caller's memory: the input object and the output object.
Memory(in, prior) == [a \in Addrs |-> IF a = InAddr THEN in ELSE prior]

InitWsNistValidateHash ==
  /\ op = "ws_nist_validate_hash" /\ pc = "call"
  /\ ptrIn \in Pointers(InAddr) /\ ptrOut \in Pointers(OutAddr)
  /\ \E h \in Hashes, p \in PriorHashes : mem = Memory(h, p)
  /\ mem0 = mem
  /\ deref = {} /\ writes = {} /\ ret = Unset
  /\ NoNist /\ NoX509

InitWsNistValidateSymmetric ==
  /\ op = "ws_nist_validate_symmetric" /\ pc = "call"
  /\ ptrIn \in Pointers(InAddr) /\ ptrOut \in Pointers(OutAddr)
  /\ \E k \in Keys, p \in PriorKeys : mem = Memory(k, p)
  /\ mem0 = mem
  /\ deref = {} /\ writes = {} /\ ret = Unset
  /\ hashA = Unset /\ hashB = Unset /\ keyA = Unset /\ keyB = Unset
  /\ expiry \in Years
  /\ resA = NoResult /\ resB = NoResult /\ reval = NoResult
  /\ NoX509

----------------------------------------------------------------------------
(* The invocations of src/src/standards/nist.rs.                           *)

\* validate_hash applied to both hashes.
ValidateHash ==
  /\ op = "validate_hash" /\ pc = "call"
  /\ resA' = validate_hash(hashA)
  /\ resB' = validate_hash(hashB)
  /\ pc' = "returned"
  /\ UNCHANGED <<op, hashA, hashB, keyA, keyB, expiry, reval,
                 ffiVars, x509Args, x509Vars>>

\* validate_hash applied to the recommendation it returned.
RevalidateHash ==
  /\ op = "validate_hash" /\ pc = "returned"
  /\ resA.tag = "Err"
  /\ reval' = validate_hash(resA.val)
  /\ pc' = "revalidated"
  /\ UNCHANGED <<op, hashA, hashB, keyA, keyB, expiry, resA, resB,
                 ffiVars, x509Args, x509Vars>>

\* validate_symmetric applied to both keys, with the same expiry.
ValidateSymmetric ==
  /\ op = "validate_symmetric" /\ pc = "call"
  /\ resA' = validate_symmetric(keyA, expiry)
  /\ resB' = validate_symmetric(keyB, expiry)
  /\ pc' = "returned"
  /\ UNCHANGED <<op, hashA, hashB, keyA, keyB, expiry, reval,
                 ffiVars, x509Args, x509Vars>>

\* validate_symmetric applied to the recommendation it returned, with the
\* same expiry.
RevalidateSymmetric ==
  /\ op = "validate_symmetric" /\ pc = "returned"
  /\ resA.tag = "Err"
  /\ reval' = validate_symmetric(resA.val, expiry)
  /\ pc' = "revalidated"
  /\ UNCHANGED <<op, hashA, hashB, keyA, keyB, expiry, resA, resB,
                 ffiVars, x509Args, x509Vars>>

\* One call of ws_nist_validate_hash(ptrIn, ptrOut).
WsNistValidateHash ==
  /\ op = "ws_nist_validate_hash" /\ pc = "call"
  /\ LET e == ws_nist_validate_hash(ptrIn, ptrOut, mem)
     IN  /\ ret' = e.ret
         /\ mem' = e.mem
         /\ deref' = e.deref
         /\ writes' = e.writes
  /\ pc' = "returned"
  /\ UNCHANGED <<op, nistVars, ptrIn, ptrOut, mem0, x509Args, x509Vars>>

\* One call of ws_nist_validate_symmetric(ptrIn, expiry, ptrOut).
WsNistValidateSymmetric ==
  /\ op = "ws_nist_validate_symmetric" /\ pc = "call"
  /\ LET e == ws_nist_validate_symmetric(ptrIn, expiry, ptrOut, mem)
     IN  /\ ret' = e.ret
         /\ mem' = e.mem
         /\ deref' = e.deref
         /\ writes' = e.writes
  /\ pc' = "returned"
  /\ UNCHANGED <<op, nistVars, ptrIn, ptrOut, mem0, x509Args, x509Vars>>

----------------------------------------------------------------------------
(* src/crates/cmd/src/assess.rs: the x509 assessor.                        *)

\* struct Ecc { f: u16 } and two of its named instances.
Ecc(f) == [f |-> f]
P224 == Ecc(224)
P256 == Ecc(256)
\* An integer factorisation instance: its modulus size in bits.
Ifc(k) == [k |-> k]
\* primitives::hash::MD5: a 128 bit digest.
MD5 == Hash(128)

\* adapter::Asymmetric: Ecc(instance) or Ifc(instance).
Asymmetric(family, instance) == [family |-> family, instance |-> instance]

\* enum Guide
Guides == {"Bsi", "Cnsa"}

\* The standards (wardstone_core::standard::bsi and ::cnsa) lie outside the
\* modelled sources.  What the selected standard answers for the primitives
\* of the certificate, under the context of the call, is drawn with the
\* arguments: engine.hash for the hash function, engine.sig for the instance
\* of the signature algorithm.
StandardValidateHash(g, hash) == engine.hash
StandardValidateEcc(g, instance) == engine.sig
StandardValidateIfc(g, instance) == engine.sig

\* Guide::validate_hash_function
validate_hash_function(g, hash) ==
  CASE g = "Bsi" -> StandardValidateHash("Bsi", hash)
    [] g = "Cnsa" -> StandardValidateHash("Cnsa", hash)

\* Guide::validate_signature_algorithm: the instance is validated by the
\* function of its family and the answer is wrapped in the same variant.
validate_signature_algorithm(g, algorithm) ==
  LET r == CASE algorithm.family = "Ecc" -> StandardValidateEcc(g, algorithm.instance)
             [] algorithm.family = "Ifc" -> StandardValidateIfc(g, algorithm.instance)
  IN  [tag |-> r.tag, val |-> Asymmetric(algorithm.family, r.val)]

\* A printed line: the stream, the name of the check, and the two values.
Line(stream, check, got, want) ==
  [stream |-> stream, check |-> check, got |-> got, want |-> want]
\* eprintln!("{}", err.to_string())
ParseErrorLine == Line("stderr", "parse error", Unset, Unset)

Paths == {"a.pem", "b.pem"}
CertHashes == {MD5, SHA256}
CertSigs == {Asymmetric("Ecc", P224), Asymmetric("Ecc", P256),
             Asymmetric("Ifc", Ifc(1024)), Asymmetric("Ifc", Ifc(2048))}
Options(S) == {None} \cup {Some(x) : x \in S}
Results(S) == {Ok(x) : x \in S} \cup {Err(x) : x \in S}
\* The values a standard may return with its answer: the input or a
\* recommended instance of the same family.
HashWants(got) == {got, SHA256}
SigWants(got) ==
  IF got.family = "Ecc" THEN {got.instance, P256} ELSE {got.instance, Ifc(3072)}

\* cert.parse is what Certificate::from_pem_file(path) gives; cert.hash and
\* cert.sig are the algorithms the file declares, as the extractors would
\* give them, whether or not the file parses.
InitX509 ==
  /\ op = "x509" /\ pc = "call"
  /\ path \in Paths /\ guide \in Guides /\ verbose \in BOOLEAN
  /\ \E parse \in {"Ok", "Err"}, h \in Options(CertHashes), s \in Options(CertSigs) :
       /\ cert = [parse |-> parse, hash |-> h, sig |-> s]
       /\ \E hv \in (IF h.some THEN Results(HashWants(h.val)) ELSE {NoResult}),
             sv \in (IF s.some THEN Results(SigWants(s.val)) ELSE {NoResult}) :
            engine = [hash |-> hv, sig |-> sv]
  /\ pass = NoStatus /\ status = NoStatus
  /\ out = <<>> /\ calls = <<>>
  /\ NoNist /\ NoFfi

\* A plausible slip: the parse error is printed and the result demoted, but
\* the function goes on to the checks instead of returning.
X509Parse_NoReturn ==
  /\ op = "x509" /\ pc = "call"
  /\ IF cert.parse = "Err"
     THEN /\ out' = Append(out, ParseErrorLine)
          /\ pass' = StatusFail(path)
     ELSE /\ pass' = StatusOk(path)
          /\ UNCHANGED out
  /\ pc' = "hash"
  /\ UNCHANGED <<op, nistVars, ffiVars, x509Args, calls, status>>

\* Lines 94-102: Certificate::from_pem_file(path); on Err the error is printed
\* and Fail(path) is returned, on Ok pass starts as Ok(path).
X509Parse ==
  /\ op = "x509" /\ pc = "call"
  /\ IF cert.parse = "Err"
     THEN /\ out' = Append(out, ParseErrorLine)
          /\ status' = StatusFail(path)
          /\ pc' = "done"
          /\ UNCHANGED pass
     ELSE /\ pass' = StatusOk(path)
          /\ pc' = "hash"
          /\ UNCHANGED <<out, status>>
  /\ UNCHANGED <<op, nistVars, ffiVars, x509Args, calls>>

\* A plausible slip: a failed hash check returns at once (fail fast).
X509HashCheck_ShortCircuit ==
  /\ op = "x509" /\ pc = "hash"
  /\ IF cert.hash.some
     THEN LET got == cert.hash.val
              r == validate_hash_function(guide, got)
          IN  /\ calls' = Append(calls, "validate_hash_function")
              /\ IF r.tag = "Ok"
                 THEN /\ out' = IF verbose
                                THEN Append(out, Line("stdout", "hash function", got, r.val))
                                ELSE out
                      /\ pc' = "sig"
                      /\ UNCHANGED pass
                 ELSE /\ pass' = StatusFail(path)
                      /\ out' = Append(out, Line("stderr", "hash function", got, r.val))
                      /\ pc' = "ret"
     ELSE pc' = "sig" /\ UNCHANGED <<calls, out, pass>>
  /\ UNCHANGED <<op, nistVars, ffiVars, x509Args, status>>

\* Lines 104-116: the hash function check.
X509HashCheck ==
  /\ op = "x509" /\ pc = "hash"
  /\ IF cert.hash.some
     THEN LET got == cert.hash.val
              r == validate_hash_function(guide, got)
          IN  /\ calls' = Append(calls, "validate_hash_function")
              /\ IF r.tag = "Ok"
                 THEN /\ out' = IF verbose
                                THEN Append(out, Line("stdout", "hash function", got, r.val))
                                ELSE out
                      /\ UNCHANGED pass
                 ELSE /\ pass' = StatusFail(path)
                      /\ out' = Append(out, Line("stderr", "hash function", got, r.val))
     ELSE UNCHANGED <<calls, out, pass>>
  /\ pc' = "sig"
  /\ UNCHANGED <<op, nistVars, ffiVars, x509Args, status>>

\* A plausible slip: a passing signature check sets the result to Ok again.
X509SigCheck_Restores ==
  /\ op = "x509" /\ pc = "sig"
  /\ IF cert.sig.some
     THEN LET got == cert.sig.val
              r == validate_signature_algorithm(guide, got)
          IN  /\ calls' = Append(calls, "validate_signature_algorithm")
              /\ IF r.tag = "Ok"
                 THEN /\ out' = IF verbose
                                THEN Append(out, Line("stdout", "signature algorithm", got, r.val))
                                ELSE out
                      /\ pass' = StatusOk(path)
                 ELSE /\ pass' = StatusFail(path)
                      /\ out' = Append(out, Line("stderr", "signature algorithm", got, r.val))
     ELSE UNCHANGED <<calls, out, pass>>
  /\ pc' = "ret"
  /\ UNCHANGED <<op, nistVars, ffiVars, x509Args, status>>

\* A plausible slip: the line of a failed signature check is printed only
\* when verbose is set.
X509SigCheck_QuietFailure ==
  /\ op = "x509" /\ pc = "sig"
  /\ IF cert.sig.some
     THEN LET got == cert.sig.val
              r == validate_signature_algorithm(guide, got)
          IN  /\ calls' = Append(calls, "validate_signature_algorithm")
              /\ IF r.tag = "Ok"
                 THEN /\ out' = IF verbose
                                THEN Append(out, Line("stdout", "signature algorithm", got, r.val))
                                ELSE out
                      /\ UNCHANGED pass
                 ELSE /\ pass' = StatusFail(path)
                      /\ out' = IF verbose
                                THEN Append(out, Line("stderr", "signature algorithm", got, r.val))
                                ELSE out
     ELSE UNCHANGED <<calls, out, pass>>
  /\ pc' = "ret"
  /\ UNCHANGED <<op, nistVars, ffiVars, x509Args, status>>

\* Lines 118-130: the signature algorithm check.
X509SigCheck ==
  /\ op = "x509" /\ pc = "sig"
  /\ IF cert.sig.some
     THEN LET got == cert.sig.val
              r == validate_signature_algorithm(guide, got)
          IN  /\ calls' = Append(calls, "validate_signature_algorithm")
              /\ IF r.tag = "Ok"
                 THEN /\ out' = IF verbose
                                THEN Append(out, Line("stdout", "signature algorithm", got, r.val))
                                ELSE out
                      /\ UNCHANGED pass
                 ELSE /\ pass' = StatusFail(path)
                      /\ out' = Append(out, Line("stderr", "signature algorithm", got, r.val))
     ELSE UNCHANGED <<calls, out, pass>>
  /\ pc' = "ret"
  /\ UNCHANGED <<op, nistVars, ffiVars, x509Args, status>>

\* Line 132: pass is returned.
X509Return ==
  /\ op = "x509" /\ pc = "ret"
  /\ status' = pass
  /\ pc' = "done"
  /\ UNCHANGED <<op, nistVars, ffiVars, x509Args, pass, out, calls>>

----------------------------------------------------------------------------

Init ==
  \/ InitValidateHash
  \/ InitValidateSymmetric
  \/ InitWsNistValidateHash
  \/ InitWsNistValidateSymmetric
  \/ InitX509

Next ==
  \/ ValidateHash
  \/ RevalidateHash
  \/ ValidateSymmetric
  \/ RevalidateSymmetric
  \/ WsNistValidateHash
  \/ WsNistValidateSymmetric
  \/ X509Parse
  \/ X509HashCheck
  \/ X509SigCheck
  \/ X509Return

Spec == Init /\ [][Next]_vars

----------------------------------------------------------------------------
(* The claims about validate_hash and validate_symmetric.                  *)

\* C1: validate_symmetric(key, y) returns Ok exactly when the strength is at
\* least 128, or is 112 with y <= 2023; in every other case it returns
\* Err(AES128).  Strength 112 is Ok at 2023 and Err(AES128) at 2024.
C1_SymmetricDecision ==
  (op = "validate_symmetric" /\ pc # "call") =>
    LET s == keyA.security
        y == expiry
    IN  IF s >= 128 \/ (s = 112 /\ y <= 2023)
        THEN resA.tag = "Ok"
        ELSE resA.tag = "Err" /\ resA.val = AES128

\* Strength 112 with expiry 2024 has been validated and rejected.
C1_Witness ==
  /\ op = "validate_symmetric" /\ pc = "returned"
  /\ keyA.security = 112 /\ expiry = 2024
  /\ resA.tag = "Err" /\ resA.val = AES128

\* C2: with the expiry fixed, if A is at least as strong as B and B validates
\* Ok then A validates Ok, for validate_hash and for validate_symmetric.
C2_MonotoneInStrength ==
  /\ (op = "validate_hash" /\ pc = "returned") =>
       ((hashA.n \div 2 >= hashB.n \div 2 /\ resB.tag = "Ok") => resA.tag = "Ok")
  /\ (op = "validate_symmetric" /\ pc = "returned") =>
       ((keyA.security >= keyB.security /\ resB.tag = "Ok") => resA.tag = "Ok")

\* C3: a recommendation returned in Err validates Ok, with the same expiry;
\* the recommendations are SHA256 (256 bits) and AES128 (strength 128).
C3_RecommendationValid ==
  /\ (op = "validate_hash" /\ pc # "call" /\ resA.tag = "Err") =>
       resA.val.n = 256
  /\ (op = "validate_symmetric" /\ pc # "call" /\ resA.tag = "Err") =>
       resA.val.security = 128
  /\ (op \in {"validate_hash", "validate_symmetric"} /\ pc = "revalidated") =>
       reval.tag = "Ok"

\* The recommendation given for a 112 bit key after the cutoff year has been
\* validated with that year, and accepted.
C3_Witness ==
  /\ op = "validate_symmetric" /\ pc = "revalidated"
  /\ keyA.security = 112 /\ expiry = CUTOFF_YEAR + 1
  /\ resA.tag = "Err" /\ reval.tag = "Ok"

\* C4: validate_hash takes floor(n / 2) as the strength and returns
\* Err(SHA256) exactly when it is at most 111 (n <= 223), Ok when it is at
\* least 112 (n >= 224); the result is decided by n alone.
C4_HashDecision ==
  (op = "validate_hash" /\ pc # "call") =>
    IF hashA.n <= 223
    THEN resA.tag = "Err" /\ resA.val = SHA256
    ELSE resA.tag = "Ok" /\ resA.val = TRUE

\* A 128 bit digest has been validated and rejected with SHA256.
C4_Witness ==
  /\ op = "validate_hash" /\ pc = "returned"
  /\ hashA.n = 128
  /\ resA.tag = "Err" /\ resA.val = SHA256

----------------------------------------------------------------------------
(* The claims about the C entry points.                                    *)

\* The Result of the pure function for the input object of a C call.
PureResult ==
  IF op = "ws_nist_validate_hash"
  THEN validate_hash(mem0[ptrIn])
  ELSE validate_symmetric(mem0[ptrIn], expiry)

Returned ==
  /\ op \in {"ws_nist_validate_hash", "ws_nist_validate_symmetric"}
  /\ pc = "returned"

\* C5: the C entry points return -1 exactly when the input pointer is null,
\* whatever the output pointer and the year; for a non-null input, 1 exactly
\* when the pure function returns Ok and 0 exactly when it returns Err.
C5_ReturnCode ==
  Returned =>
    /\ ret \in {-1, 0, 1}
    /\ (ret = -1) = (ptrIn = NULL)
    /\ ptrIn # NULL =>
         /\ (ret = 1) = (PureResult.tag = "Ok")
         /\ (ret = 0) = (PureResult.tag = "Err")

\* A null key with a usable output pointer has been answered with -1.
C5_Witness ==
  /\ op = "ws_nist_validate_symmetric" /\ pc = "returned"
  /\ ptrIn = NULL /\ ptrOut # NULL /\ ret = -1

\* C6: the output object is written exactly when the input pointer is
\* non-null, the input is noncompliant and the output pointer is non-null,
\* and it then holds the recommendation of the pure function (SHA256 /
\* AES128).  Otherwise it is as it was, no null pointer is read or written
\* through, and a noncompliant input with a null output pointer returns 0.
C6_OutputWritten ==
  Returned =>
    LET noncompliant == ptrIn # NULL /\ PureResult.tag = "Err"
        written == OutAddr \in writes
        recommended == IF op = "ws_nist_validate_hash" THEN SHA256 ELSE AES128
    IN  /\ written = (noncompliant /\ ptrOut # NULL)
        /\ written => /\ mem[OutAddr] = PureResult.val
                      /\ mem[OutAddr] = recommended
        /\ ~written => mem[OutAddr] = mem0[OutAddr]
        /\ writes \subseteq {OutAddr}
        /\ NULL \notin (deref \cup writes)
        /\ (noncompliant /\ ptrOut = NULL) => ret = 0

\* A noncompliant hash has been validated and SHA256 stored over what the
\* output object held.
C6_Witness ==
  /\ op = "ws_nist_validate_hash" /\ pc = "returned"
  /\ ptrIn # NULL /\ ptrOut # NULL
  /\ mem0[InAddr] = MD5 /\ mem0[OutAddr] = Hash(0)
  /\ mem[OutAddr] = SHA256 /\ ret = 0

----------------------------------------------------------------------------
(* The claims about x509.                                                  *)

\* The indices of the printed lines of one check.
LinesOf(check) == {i \in DOMAIN out : out[i].check = check}
\* How often one validation was invoked.
CallsOf(fn) == Cardinality({i \in DOMAIN calls : calls[i] = fn})

HashFails ==
  cert.hash.some /\ validate_hash_function(guide, cert.hash.val).tag = "Err"
SigFails ==
  cert.sig.some /\ validate_signature_algorithm(guide, cert.sig.val).tag = "Err"

\* C7: for a certificate that parses and has both primitives extracted, the
\* signature validation is executed whatever the hash validation gave; when
\* the hash check fails and the signature check passes, the signature check
\* is made and reported (its line is printed when verbose) and the Status
\* returned is Fail(path).
C7_NoShortCircuit ==
  (op = "x509" /\ pc = "done" /\ cert.parse = "Ok"
     /\ cert.hash.some /\ cert.sig.some) =>
    /\ calls = <<"validate_hash_function", "validate_signature_algorithm">>
    /\ (HashFails /\ ~SigFails) =>
         /\ status = StatusFail(path)
         /\ verbose => \E i \in LinesOf("signature algorithm") :
                         /\ out[i].stream = "stdout"
                         /\ out[i].got = cert.sig.val

\* A verbose assessment whose hash check failed and whose signature check
\* passed has returned.
C7_Witness ==
  /\ op = "x509" /\ pc = "done" /\ cert.parse = "Ok"
  /\ HashFails /\ cert.sig.some /\ ~SigFails /\ verbose
  /\ status = StatusFail(path)
  /\ Len(out) = 2

\* C8: when the certificate does not parse, x509 prints the parse error to
\* the error stream and returns Fail(path) at once: no validation is
\* invoked and no line of a check is printed.
C8_ParseFailure ==
  (op = "x509" /\ cert.parse = "Err") =>
    /\ pc \in {"call", "done"}
    /\ calls = <<>>
    /\ LinesOf("hash function") = {} /\ LinesOf("signature algorithm") = {}
    /\ pass = NoStatus
    /\ pc = "done" => /\ status = StatusFail(path)
                      /\ out = <<ParseErrorLine>>

\* A file that declares both algorithms but does not parse has been
\* assessed.
C8_Witness ==
  /\ op = "x509" /\ pc = "done" /\ cert.parse = "Err"
  /\ cert.hash.some /\ cert.sig.some
  /\ status = StatusFail(path) /\ out = <<ParseErrorLine>>

\* What the claim C9 says of a single state of an assessment.
AccumulatorState ==
  op = "x509" =>
    /\ (pass = NoStatus) = (pc = "call" \/ cert.parse = "Err")
    /\ pc = "hash" => pass = StatusOk(path)
    /\ pass.tag \in {"-", "Ok", "Fail"} /\ pass.path \in {Unset, path}
    /\ pc = "done" =>
         /\ status \in {StatusOk(path), StatusFail(path)}
         /\ (status = StatusOk(path)) =
              (cert.parse = "Ok" /\ ~HashFails /\ ~SigFails)
         /\ (cert.parse = "Ok" /\ ~cert.hash.some /\ ~cert.sig.some) =>
              status = StatusOk(path)

\* What the claim C9 says of a single step of an assessment.
AccumulatorStep ==
  op = "x509" =>
    /\ pass.tag = "Fail" => pass'.tag = "Fail"
    /\ pass.tag = "Ok" => pass'.tag \in {"Ok", "Fail"}

\* C9: the accumulator of x509 starts at Ok(path) after a successful parse
\* and only moves from Ok to Fail, never back.  x509 returns Ok(path) exactly
\* when the certificate parsed and no extracted primitive's validation
\* returned Err; a primitive that is not extracted does not demote the
\* result, so a parsed certificate with neither extracted gives Ok(path).
C9_MonotoneAccumulator ==
  []AccumulatorState /\ [][AccumulatorStep]_vars

\* A passing signature check has followed a failing hash check, and
\* Fail(path) has been returned.
C9_Witness ==
  /\ op = "x509" /\ pc = "done" /\ cert.parse = "Ok" /\ ~verbose
  /\ HashFails /\ cert.sig.some /\ ~SigFails
  /\ pass = StatusFail(path) /\ status = StatusFail(path)

\* C10: within one assessment a 'hash function' line precedes a 'signature
\* algorithm' line, and each validation and each line happens at most once.
\* A compliant check prints its line only when verbose, to stdout; a
\* noncompliant check prints its line to the error stream, verbose or not.
C10_DiagnosticOrder ==
  op = "x509" =>
    /\ \A i \in LinesOf("hash function"), j \in LinesOf("signature algorithm") : i < j
    /\ Cardinality(LinesOf("hash function")) <= 1
    /\ Cardinality(LinesOf("signature algorithm")) <= 1
    /\ CallsOf("validate_hash_function") <= 1
    /\ CallsOf("validate_signature_algorithm") <= 1
    /\ (pc = "done" /\ cert.parse = "Ok") =>
         /\ IF HashFails
            THEN \E i \in LinesOf("hash function") : out[i].stream = "stderr"
            ELSE IF cert.hash.some /\ verbose
            THEN \E i \in LinesOf("hash function") : out[i].stream = "stdout"
            ELSE LinesOf("hash function") = {}
         /\ IF SigFails
            THEN \E i \in LinesOf("signature algorithm") : out[i].stream = "stderr"
            ELSE IF cert.sig.some /\ verbose
            THEN \E i \in LinesOf("signature algorithm") : out[i].stream = "stdout"
            ELSE LinesOf("signature algorithm") = {}

\* Both checks of a quiet assessment have failed: two lines on the error
\* stream, the hash function first.
C10_Witness ==
  /\ op = "x509" /\ pc = "done" /\ ~verbose
  /\ Len(out) = 2
  /\ out[1].check = "hash function" /\ out[1].stream = "stderr"
  /\ out[2].check = "signature algorithm" /\ out[2].stream = "stderr"

====
